---- MODULE Spec2Model ----
(***************************************************************************)
(* A model of astrbot_plugin_img_analysis (src/main.py): the Exif tag      *)
(* decoder, the GPS converter, the metadata assembler, the geocode         *)
(* resolver, and the chat handlers with their waiting sessions, timeout    *)
(* tasks and temporary files.                                              *)
(*                                                                         *)
(* Python values are records tagged by "t".  A Python str is a sequence    *)
(* of code points (integers); a bytes object is a sequence of octets.      *)
(* A float coordinate is an integer number of micro-degrees (the code      *)
(* rounds to 6 places); None is <<>> and a present value v is <<v>>.       *)
(***************************************************************************)
EXTENDS Integers, Sequences, FiniteSets, TLC

VARIABLES
    \* one call of a pipeline function: its name, its arguments, what it returned
    fn, arg, ret,
    \* one run of a handler on a message that carries an image
    h_pc, amap_api_key, image, disk, temp_path, meta, geo_invoked, geo_requests, sent,
    \* the plugin's waiting session and timeout task of one user, and the event loop
    waiting_sessions, timeout_tasks, tasks, now, msgs, pending, analysed, sessions

unitVars == <<fn, arg, ret>>
handVars == <<h_pc, amap_api_key, image, disk, temp_path, meta, geo_invoked,
              geo_requests, sent>>
sessVars == <<waiting_sessions, timeout_tasks, tasks, now, msgs, pending, analysed,
              sessions>>
vars == <<unitVars, handVars, sessVars>>

----------------------------------------------------------------------------
(* Bounds of the model *)

\* the longest bytes object and the longest list of tag values decoded
MaxBytesLen == 3
MaxListLen == 2
\* the most non-GPS tags of one image
MaxTags == 2
\* the messages one user sends, and how far the loop's clock runs
MaxMsgs == 3
MaxTime == 4
\* self.timeout_seconds (line 52), scaled to the clock's range
timeout_seconds == 2

----------------------------------------------------------------------------
(* Python values *)

NoneVal == <<>>
Some(v) == <<v>>

PyNone == [t |-> "none"]
PyInt(n) == [t |-> "int", n |-> n]
\* a float with one decimal digit: the value n/10
PyFloat(n) == [t |-> "float", n |-> n]
\* exifread.utils.Ratio(n, d)
Ratio(n, d) == [t |-> "ratio", n |-> n, d |-> d]
PyStr(s) == [t |-> "str", s |-> s]
PyBytes(b) == [t |-> "bytes", b |-> b]
PyList(items) == [t |-> "list", items |-> items]
\* exifread.classes.IfdTag: an object with a .values attribute
IfdTag(values) == [t |-> "tag", values |-> values]

(* Code points used by the code's literals *)
SP == 32
DOT == 46
SLASH == 47
COMMA == 44
UNDERSCORE == 95
STR_None == <<78, 111, 110, 101>>
STR_GPS == <<71, 80, 83>>
STR_N == <<78>>
STR_S == <<83>>
STR_E == <<69>>
STR_W == <<87>>
\* "[二进制数据] 长度: " and " bytes" (line 83)
STR_BinaryPrefix == <<91, 20108, 36827, 21046, 25968, 25454, 93, 32, 38271, 24230, 58, 32>>
STR_BytesSuffix == <<32, 98, 121, 116, 101, 115>>

RECURSIVE Digits(_)
\* str(n) for an int n >= 0
Digits(n) == IF n < 10 THEN <<48 + n>> ELSE Digits(n \div 10) \o <<48 + (n % 10)>>

RECURSIVE Gcd(_, _)
Gcd(a, b) == IF b = 0 THEN a ELSE Gcd(b, a % b)

IsSpace(c) == c \in {9, 10, 11, 12, 13, 32}

RECURSIVE LStrip(_)
LStrip(s) == IF s # <<>> /\ IsSpace(Head(s)) THEN LStrip(Tail(s)) ELSE s

RECURSIVE RStrip(_)
RStrip(s) ==
    IF s # <<>> /\ IsSpace(s[Len(s)]) THEN RStrip(SubSeq(s, 1, Len(s) - 1)) ELSE s

\* str.strip()
Strip(s) == RStrip(LStrip(s))

\* str.replace(a, b) for single characters
Replace(s, a, b) == [i \in 1..Len(s) |-> IF s[i] = a THEN b ELSE s[i]]

\* str.replace(a, '') for a single character
Remove(s, a) == SelectSeq(s, LAMBDA c : c # a)

\* str.isdigit(): non-empty and every character a digit
IsDigit(s) == s # <<>> /\ \A i \in 1..Len(s) : s[i] \in 48..57

\* str.startswith(p)
StartsWith(s, p) == Len(s) >= Len(p) /\ SubSeq(s, 1, Len(p)) = p

RECURSIVE Join(_, _)
\* sep.join(parts)
Join(sep, parts) ==
    IF parts = <<>> THEN <<>>
    ELSE IF Len(parts) = 1 THEN parts[1]
    ELSE parts[1] \o sep \o Join(sep, Tail(parts))

----------------------------------------------------------------------------
(* bytes.decode *)

IsCont(b) == b \in 128..191

RECURSIVE Utf8DecodeIgnore(_)
\* bytes.decode('utf-8', errors='ignore'): an invalid or truncated sequence is
\* dropped and decoding goes on with the next byte; nothing is raised.
Utf8DecodeIgnore(bs) ==
    IF bs = <<>> THEN <<>>
    ELSE LET b == Head(bs) IN
         IF b < 128 THEN <<b>> \o Utf8DecodeIgnore(Tail(bs))
         ELSE IF b \in 194..223 /\ Len(bs) >= 2 /\ IsCont(bs[2])
              THEN <<(b - 192) * 64 + (bs[2] - 128)>> \o Utf8DecodeIgnore(Tail(Tail(bs)))
         ELSE IF b \in 224..239 /\ Len(bs) >= 3 /\ IsCont(bs[2]) /\ IsCont(bs[3])
              THEN <<(b - 224) * 4096 + (bs[2] - 128) * 64 + (bs[3] - 128)>>
                   \o Utf8DecodeIgnore(SubSeq(bs, 4, Len(bs)))
         ELSE Utf8DecodeIgnore(Tail(bs))

RECURSIVE Utf8Valid(_)
\* whether bytes.decode('utf-8') in strict mode succeeds
Utf8Valid(bs) ==
    IF bs = <<>> THEN TRUE
    ELSE LET b == Head(bs) IN
         IF b < 128 THEN Utf8Valid(Tail(bs))
         ELSE IF b \in 194..223 /\ Len(bs) >= 2 /\ IsCont(bs[2])
              THEN Utf8Valid(Tail(Tail(bs)))
         ELSE IF b \in 224..239 /\ Len(bs) >= 3 /\ IsCont(bs[2]) /\ IsCont(bs[3])
              THEN Utf8Valid(SubSeq(bs, 4, Len(bs)))
         ELSE FALSE

RECURSIVE GbkDecodeIgnore(_)
\* bytes.decode('gbk', errors='ignore'): a lead byte 0x81..0xFE with a trail byte
\* 0x40..0xFE (not 0x7F) is one character, named here by 65536 + the two bytes.
GbkDecodeIgnore(bs) ==
    IF bs = <<>> THEN <<>>
    ELSE LET b == Head(bs) IN
         IF b < 128 THEN <<b>> \o GbkDecodeIgnore(Tail(bs))
         ELSE IF b \in 129..254 /\ Len(bs) >= 2 /\ bs[2] \in (64..254) \ {127}
              THEN <<65536 + b * 256 + bs[2]>> \o GbkDecodeIgnore(Tail(Tail(bs)))
         ELSE GbkDecodeIgnore(Tail(bs))

\* The outcome of a decode call: with errors='ignore' no UnicodeDecodeError is raised.
DecodeCall(codec, bs) ==
    [raised |-> FALSE,
     text |-> IF codec = "utf-8" THEN Utf8DecodeIgnore(bs) ELSE GbkDecodeIgnore(bs)]

----------------------------------------------------------------------------
(* str() of the values the Exif reader hands out *)

RatioStr(n, d) ==
    IF d = 0 THEN Digits(n) \o <<SLASH>> \o Digits(0)
    ELSE LET g == Gcd(n, d) IN
         IF d \div g = 1 THEN Digits(n \div g)
         ELSE Digits(n \div g) \o <<SLASH>> \o Digits(d \div g)

PyStrOf(v) ==
    CASE v.t = "str" -> v.s
      [] v.t = "int" -> Digits(v.n)
      [] v.t = "float" -> Digits(v.n \div 10) \o <<DOT>> \o Digits(v.n % 10)
      [] v.t = "ratio" -> RatioStr(v.n, v.d)
      [] v.t = "none" -> STR_None

\* _safe_get_exif_value on a bytes object (lines 75-83)
safe_get_bytes(b) ==
    LET u == DecodeCall("utf-8", b) IN
    IF ~u.raised THEN Strip(u.text)
    ELSE LET g == DecodeCall("gbk", b) IN
         IF ~g.raised THEN Strip(g.text)
         ELSE STR_BinaryPrefix \o Digits(Len(b)) \o STR_BytesSuffix

\* _safe_get_exif_value (lines 71-104)
safe_get_exif_value(v) ==
    IF v.t = "bytes" THEN safe_get_bytes(v.b)
    ELSE IF v.t = "tag"
         THEN IF v.values.t = "list"
              THEN Join(<<COMMA, SP>>,
                        [i \in 1..Len(v.values.items) |->
                            IF v.values.items[i].t = "bytes"
                            THEN safe_get_bytes(v.values.items[i].b)
                            ELSE PyStrOf(v.values.items[i])])
              ELSE Strip(PyStrOf(v.values))
    ELSE Strip(PyStrOf(v))

----------------------------------------------------------------------------
(* GPS Coordinate Converter *)

RECURSIVE IntOf(_)
\* the number a non-empty string of digits denotes
IntOf(s) == IF Len(s) = 1 THEN s[1] - 48
            ELSE IntOf(SubSeq(s, 1, Len(s) - 1)) * 10 + (s[Len(s)] - 48)

RECURSIVE Pow10(_)
Pow10(k) == IF k = 0 THEN 1 ELSE 10 * Pow10(k - 1)

RECURSIVE IndexOf(_, _)
\* the position of the first c in s (s holds one)
IndexOf(s, c) == IF Head(s) = c THEN 1 ELSE 1 + IndexOf(Tail(s), c)

\* float(s) if s.replace('.', '').isdigit() else 0.0 (lines 116-118), as the
\* fraction n/d; float() raises ValueError on a string with two dots.
float_or_zero(s) ==
    LET bare == Remove(s, DOT) IN
    IF ~IsDigit(bare) THEN [raised |-> FALSE, n |-> 0, d |-> 1]
    ELSE IF Len(s) - Len(bare) > 1 THEN [raised |-> TRUE, n |-> 0, d |-> 1]
    ELSE IF Len(s) = Len(bare) THEN [raised |-> FALSE, n |-> IntOf(s), d |-> 1]
    ELSE [raised |-> FALSE, n |-> IntOf(bare), d |-> Pow10(Len(s) - IndexOf(s, DOT))]

\* a / b rounded to the nearest integer, ties to even (Python's round), a >= 0, b > 0
RoundHalfEven(a, b) ==
    LET q == a \div b
        r == a % b
    IN  IF 2 * r < b THEN q
        ELSE IF 2 * r > b THEN q + 1
        ELSE IF q % 2 = 0 THEN q ELSE q + 1

\* round(deg + min/60 + sec/3600, 6) in micro-degrees, for fractions deg, mn, sec.
\* (x * 10^6 / 3600 = x * 2500 / 9; the quotient is split so that no product
\* leaves the 32-bit integers.)
DmsMicro(deg, mn, sec) ==
    LET k == deg.d * mn.d * sec.d
        p == 3600 * deg.n * mn.d * sec.d + 60 * mn.n * deg.d * sec.d + sec.n * deg.d * mn.d
        q == p \div (9 * k)
        r == p % (9 * k)
    IN  q * 2500 + RoundHalfEven(r * 2500, 9 * k)

\* gps_coords.values[i]: an IndexError when there is no such element
HasItems(values, n) ==
    IF values.t = "list" THEN Len(values.items) >= n
    ELSE values.t = "str" /\ Len(values.s) >= n

ItemAt(values, i) ==
    IF values.t = "list" THEN values.items[i] ELSE PyStr(<<values.s[i]>>)

\* the sign of line 121: ref in ['S', 'W']
RefIsNegative(ref) == ref \in {STR_S, STR_W}

\* _convert_exif_gps (lines 106-127): the coordinate in micro-degrees
convert_exif_gps(gps_coords, ref) ==
    IF ~HasItems(gps_coords.values, 3) THEN 0
    ELSE LET deg == float_or_zero(safe_get_exif_value(ItemAt(gps_coords.values, 1)))
             mn  == float_or_zero(safe_get_exif_value(ItemAt(gps_coords.values, 2)))
             sec == float_or_zero(safe_get_exif_value(ItemAt(gps_coords.values, 3)))
         IN  IF deg.raised \/ mn.raised \/ sec.raised THEN 0
             ELSE IF RefIsNegative(ref) THEN 0 - DmsMicro(deg, mn, sec)
             ELSE DmsMicro(deg, mn, sec)

----------------------------------------------------------------------------
(* Exif/GPS Extractor *)

\* 'GPS GPSLatitude'
KEY_GPS_GPSLatitude == <<71, 80, 83, 32, 71, 80, 83, 76, 97, 116, 105, 116, 117, 100, 101>>
\* 'GPS GPSLatitudeRef'
KEY_GPS_GPSLatitudeRef == <<71, 80, 83, 32, 71, 80, 83, 76, 97, 116, 105, 116, 117, 100, 101, 82, 101, 102>>
\* 'GPS GPSLongitude'
KEY_GPS_GPSLongitude == <<71, 80, 83, 32, 71, 80, 83, 76, 111, 110, 103, 105, 116, 117, 100, 101>>
\* 'GPS GPSLongitudeRef'
KEY_GPS_GPSLongitudeRef == <<71, 80, 83, 32, 71, 80, 83, 76, 111, 110, 103, 105, 116, 117, 100, 101, 82, 101, 102>>
\* 'GPS GPSAltitude'
KEY_GPS_GPSAltitude == <<71, 80, 83, 32, 71, 80, 83, 65, 108, 116, 105, 116, 117, 100, 101>>
\* 'Image ImageWidth'
KEY_Image_ImageWidth == <<73, 109, 97, 103, 101, 32, 73, 109, 97, 103, 101, 87, 105, 100, 116, 104>>
\* 'Image ImageLength'
KEY_Image_ImageLength == <<73, 109, 97, 103, 101, 32, 73, 109, 97, 103, 101, 76, 101, 110, 103, 116, 104>>
\* 'Image Make'
KEY_Image_Make == <<73, 109, 97, 103, 101, 32, 77, 97, 107, 101>>
\* 'Image Model'
KEY_Image_Model == <<73, 109, 97, 103, 101, 32, 77, 111, 100, 101, 108>>
\* 'Image DateTime'
KEY_Image_DateTime == <<73, 109, 97, 103, 101, 32, 68, 97, 116, 101, 84, 105, 109, 101>>
\* 'Image GPSInfo'
KEY_Image_GPSInfo == <<73, 109, 97, 103, 101, 32, 71, 80, 83, 73, 110, 102, 111>>
\* 'EXIF UserComment'
KEY_EXIF_UserComment == <<69, 88, 73, 70, 32, 85, 115, 101, 114, 67, 111, 109, 109, 101, 110, 116>>
\* 'JPEGThumbnail'
KEY_JPEGThumbnail == <<74, 80, 69, 71, 84, 104, 117, 109, 98, 110, 97, 105, 108>>

\* dict.get(key): None when the key is missing
DictGet(d, key) == IF key \in DOMAIN d THEN Some(d[key]) ELSE NoneVal

\* gps_x and hasattr(gps_x, 'values') (lines 142-145)
IsTagObject(opt) == opt # NoneVal /\ opt[1].t = "tag"

\* The display strings of lines 133, 155, 157, by template and arguments
GpsStrNone == [tpl |-> "NO_GPS"]
GpsStrInvalid == [tpl |-> "GPS_INVALID_ZERO"]
GpsStrCoords(lat, lat_ref, lon, lon_ref) ==
    [tpl |-> "GPS_COORDS", lat |-> lat, lat_ref |-> lat_ref, lon |-> lon, lon_ref |-> lon_ref]

\* _parse_gps_exifread with line 154 reading "lat == 0.0 or lon == 0.0"
parse_gps_exifread_either_zero(exif_tags) ==
    LET gps_lat == DictGet(exif_tags, KEY_GPS_GPSLatitude)
        gps_lat_ref == DictGet(exif_tags, KEY_GPS_GPSLatitudeRef)
        gps_lon == DictGet(exif_tags, KEY_GPS_GPSLongitude)
        gps_lon_ref == DictGet(exif_tags, KEY_GPS_GPSLongitudeRef)
    IN  IF IsTagObject(gps_lat) /\ IsTagObject(gps_lat_ref)
           /\ IsTagObject(gps_lon) /\ IsTagObject(gps_lon_ref)
        THEN LET lat_ref == safe_get_exif_value(gps_lat_ref[1].values)
                 lon_ref == safe_get_exif_value(gps_lon_ref[1].values)
                 lat == convert_exif_gps(gps_lat[1], lat_ref)
                 lon == convert_exif_gps(gps_lon[1], lon_ref)
             IN  [lat |-> Some(lat), lon |-> Some(lon),
                  str |-> IF lat = 0 \/ lon = 0 THEN GpsStrInvalid
                          ELSE GpsStrCoords(lat, lat_ref, lon, lon_ref)]
        ELSE [lat |-> NoneVal, lon |-> NoneVal, str |-> GpsStrNone]

\* _parse_gps_exifread (lines 129-163): (lat, lon, gps_str)
parse_gps_exifread(exif_tags) ==
    LET gps_lat == DictGet(exif_tags, KEY_GPS_GPSLatitude)
        gps_lat_ref == DictGet(exif_tags, KEY_GPS_GPSLatitudeRef)
        gps_lon == DictGet(exif_tags, KEY_GPS_GPSLongitude)
        gps_lon_ref == DictGet(exif_tags, KEY_GPS_GPSLongitudeRef)
    IN  IF IsTagObject(gps_lat) /\ IsTagObject(gps_lat_ref)
           /\ IsTagObject(gps_lon) /\ IsTagObject(gps_lon_ref)
        THEN LET lat_ref == safe_get_exif_value(gps_lat_ref[1].values)
                 lon_ref == safe_get_exif_value(gps_lon_ref[1].values)
                 lat == convert_exif_gps(gps_lat[1], lat_ref)
                 lon == convert_exif_gps(gps_lon[1], lon_ref)
             IN  [lat |-> Some(lat), lon |-> Some(lon),
                  str |-> IF lat = 0 /\ lon = 0 THEN GpsStrInvalid
                          ELSE GpsStrCoords(lat, lat_ref, lon, lon_ref)]
        ELSE [lat |-> NoneVal, lon |-> NoneVal, str |-> GpsStrNone]

----------------------------------------------------------------------------
(* Metadata Assembler *)

\* the cap of line 267 and the slices of lines 272 and 212
ExifValueCap == 200
ErrorCap == 80
GeoErrorCap == 30

\* s[:n]
Prefix(s, n) == SubSeq(s, 1, IF Len(s) < n THEN Len(s) ELSE n)

\* " 像素" (lines 236, 239)
STR_Pixels == <<32, 20687, 32032>>

\* the "basic" entries taken from the Exif tags (lines 234-248)
BasicFromTags(exif_tags) ==
    LET Entry(key, label, suffix) ==
            IF key \in DOMAIN exif_tags
            THEN label :> (safe_get_exif_value(exif_tags[key]) \o suffix)
            ELSE <<>>
    IN  Entry(KEY_Image_ImageWidth, "width", STR_Pixels)
        @@ Entry(KEY_Image_ImageLength, "height", STR_Pixels)
        @@ Entry(KEY_Image_Make, "make", <<>>)
        @@ Entry(KEY_Image_Model, "model", <<>>)
        @@ Entry(KEY_Image_DateTime, "datetime", <<>>)

\* the filter of line 267 with "<=" for "<"
KeepsValue_inclusive(val_str) ==
    val_str # <<>> /\ val_str # STR_None /\ Len(val_str) <= ExifValueCap

\* the filter of line 267
KeepsValue(val_str) ==
    val_str # <<>> /\ val_str # STR_None /\ Len(val_str) < ExifValueCap

\* the loop of lines 257-268 (the tag names of one image give distinct keys)
ExifDict(exif_tags) ==
    LET kept == {tag \in DOMAIN exif_tags :
                    /\ ~StartsWith(tag, STR_GPS)
                    /\ KeepsValue(safe_get_exif_value(exif_tags[tag]))}
        keys == {Replace(tag, SP, UNDERSCORE) : tag \in kept}
    IN  [k \in keys |->
            safe_get_exif_value(
                exif_tags[CHOOSE tag \in kept : Replace(tag, SP, UNDERSCORE) = k])]

\* the record of lines 217-222
EmptyResult ==
    [basic |-> <<>>, exif |-> <<>>,
     gps |-> [lat |-> NoneVal, lon |-> NoneVal, str |-> GpsStrNone],
     error |-> NoneVal]

\* the size entries of lines 226-227, in hundredths of a KB and of a MB
SizeEntries(file_size) ==
    ("file_size_kb" :> RoundHalfEven(file_size * 100, 1024))
    @@ ("file_size_mb" :> RoundHalfEven(file_size * 100, 1024 * 1024))

\* _parse_image_meta with the result built anew in the except block
parse_image_meta_fresh_on_error(file) ==
    IF file.getsize.raised
    THEN [EmptyResult EXCEPT !.error = Some(Prefix(file.getsize.msg, ErrorCap))]
    ELSE IF file.open.raised
    THEN [EmptyResult EXCEPT !.error = Some(Prefix(file.open.msg, ErrorCap))]
    ELSE IF file.process_file.raised
    THEN [EmptyResult EXCEPT !.error = Some(Prefix(file.process_file.msg, ErrorCap))]
    ELSE [basic |-> BasicFromTags(file.process_file.tags) @@ SizeEntries(file.getsize.size),
          exif |-> ExifDict(file.process_file.tags),
          gps |-> parse_gps_exifread(file.process_file.tags),
          error |-> NoneVal]

\* _parse_image_meta (lines 215-274).  A file is what the three calls on it do:
\* os.path.getsize, open and exifread.process_file each return or raise.
parse_image_meta(file) ==
    IF file.getsize.raised
    THEN [EmptyResult EXCEPT !.error = Some(Prefix(file.getsize.msg, ErrorCap))]
    ELSE LET sized == [EmptyResult EXCEPT !.basic = SizeEntries(file.getsize.size)] IN
         IF file.open.raised
         THEN [sized EXCEPT !.error = Some(Prefix(file.open.msg, ErrorCap))]
         ELSE IF file.process_file.raised
         THEN [sized EXCEPT !.error = Some(Prefix(file.process_file.msg, ErrorCap))]
         ELSE LET exif_tags == file.process_file.tags IN
              [basic |-> BasicFromTags(exif_tags) @@ sized.basic,
               exif |-> ExifDict(exif_tags),
               gps |-> parse_gps_exifread(exif_tags),
               error |-> NoneVal]

----------------------------------------------------------------------------
(* Geocode Resolver *)

\* the bounds of line 170, in micro-degrees
LatLimit == 90000000
LonLimit == 180000000

AddrNoKey == [tpl |-> "NO_API_KEY"]
AddrInvalidCoords(lat, lon) == [tpl |-> "INVALID_COORDS", lat |-> lat, lon |-> lon]
AddrFound(parts) == [tpl |-> "ADDRESS", parts |-> parts]
AddrNotMatched == [tpl |-> "ADDRESS_NOT_MATCHED"]
AddrProviderFail(infocode, info) ==
    [tpl |-> "PROVIDER_FAILURE", infocode |-> infocode, info |-> info]
AddrTimeout == [tpl |-> "TIMEOUT"]
AddrUnknownError(text) == [tpl |-> "UNKNOWN_ERROR", text |-> text]

\* the range test of line 170 without its longitude half
CoordsInRange_lat_only(lat, lon) ==
    0 - LatLimit <= lat /\ lat <= LatLimit

\* the range test of line 170
CoordsInRange(lat, lon) ==
    (0 - LatLimit <= lat /\ lat <= LatLimit) /\ (0 - LonLimit <= lon /\ lon <= LonLimit)

\* lines 193-208 on the decoded JSON object
AddrFromJson(obj) ==
    IF obj.status = "1"
    THEN IF obj.formatted_address # ""
         THEN AddrFound(<<obj.formatted_address>>)
         ELSE LET addr_parts == SelectSeq(obj.components, LAMBDA p : p # "") IN
              IF addr_parts # <<>> THEN AddrFound(addr_parts) ELSE AddrNotMatched
    ELSE AddrProviderFail(obj.infocode, obj.info)

\* the try block without the "except asyncio.TimeoutError" clause of line 209
AddrFromExchange_no_timeout_clause(http) ==
    CASE http.kind = "timeout" -> AddrUnknownError(<<>>)
      [] http.kind \in {"client_error", "http_status", "bad_json"} ->
            AddrUnknownError(Prefix(http.msg, GeoErrorCap))
      [] http.kind = "json" -> AddrFromJson(http.obj)

\* the try block of lines 174-213 on what the HTTP exchange does
AddrFromExchange(http) ==
    CASE http.kind = "timeout" -> AddrTimeout
      [] http.kind \in {"client_error", "http_status", "bad_json"} ->
            AddrUnknownError(Prefix(http.msg, GeoErrorCap))
      [] http.kind = "json" -> AddrFromJson(http.obj)

\* whether _gps_to_address reaches self.client.get (lines 167-171)
IssuesRequest(api_key, lat, lon) ==
    api_key # <<>> /\ CoordsInRange(lat, lon)

\* _gps_to_address (lines 165-213): the string returned and the requests made
gps_to_address(api_key, lat, lon, http) ==
    IF api_key = <<>> THEN [str |-> AddrNoKey, requests |-> 0]
    ELSE IF ~IssuesRequest(api_key, lat, lon)
    THEN [str |-> AddrInvalidCoords(lat, lon), requests |-> 0]
    ELSE [str |-> AddrFromExchange(http), requests |-> 1]

----------------------------------------------------------------------------
(* The inputs of the pipeline functions *)

\* 'A', ' ', the two bytes of U+00E9, and a byte no UTF-8 text holds
ByteAlphabet == {65, 32, 195, 169, 255}

SeqsUpTo(S, n) == UNION {[1..k -> S] : k \in 0..n}

Rep(c, n) == [i \in 1..n |-> c]

\* str, bytes, numbers, None and IfdTag objects
DecoderInputs ==
    {PyBytes(b) : b \in SeqsUpTo(ByteAlphabet, MaxBytesLen)}
    \cup {PyStr(s) : s \in SeqsUpTo({65, 32}, 2)}
    \cup {PyNone, PyInt(7), PyFloat(465), Ratio(46, 1), Ratio(2323, 50), Ratio(3, 0)}
    \cup {IfdTag(PyStr(s)) : s \in SeqsUpTo({65, 32}, 2)}
    \cup {IfdTag(PyList(items)) :
            items \in SeqsUpTo({PyBytes(<<65>>), PyBytes(<<255>>), PyInt(7), Ratio(1, 2)},
                               MaxListLen)}

\* one of degrees, minutes, seconds: an int, a float, a Ratio
GpsComponents ==
    {PyInt(0), PyInt(26), PyInt(40), PyFloat(465), Ratio(46, 1), Ratio(92, 2),
     Ratio(2323, 50), Ratio(1, 2), Ratio(3, 0)}

Refs == {STR_N, STR_S, STR_E, STR_W}

ConvertInputs ==
    {[gps_coords |-> IfdTag(PyList(<<d, m, s>>)), ref |-> r] :
        d \in GpsComponents, m \in GpsComponents, s \in GpsComponents, r \in Refs}
    \cup {[gps_coords |-> IfdTag(PyList(<<PyInt(40), PyInt(26)>>)), ref |-> r] : r \in Refs}
    \cup {[gps_coords |-> IfdTag(PyList(<<PyInt(40), PyStr(<<49, 46, 50, 46, 51>>), PyInt(1)>>)),
           ref |-> r] : r \in Refs}

Triple(d, m, s) == IfdTag(PyList(<<d, m, s>>))

GpsTriples ==
    {Triple(PyInt(0), PyInt(0), PyInt(0)),
     Triple(Ratio(40, 1), Ratio(26, 1), Ratio(46, 1)),
     Triple(Ratio(79, 1), Ratio(58, 1), Ratio(56, 1)),
     Triple(Ratio(0, 1), Ratio(0, 1), Ratio(1, 2)),
     Triple(PyInt(0), PyInt(30), PyInt(0))}

\* a dict from the pairs <<key, value>> of a set with distinct keys
DictOf(pairs) ==
    [k \in {p[1] : p \in pairs} |-> (CHOOSE p \in pairs : p[1] = k)[2]]

GpsKeys ==
    {KEY_GPS_GPSLatitude, KEY_GPS_GPSLatitudeRef, KEY_GPS_GPSLongitude,
     KEY_GPS_GPSLongitudeRef}

\* d without the keys outside keep
Restrict(d, keep) == [k \in DOMAIN d \cap keep |-> d[k]]

\* the GPS tags of an image: any of the four may be missing
GpsTagSets ==
    {Restrict(DictOf({<<KEY_GPS_GPSLatitude, lat>>,
                      <<KEY_GPS_GPSLatitudeRef, IfdTag(PyStr(lr))>>,
                      <<KEY_GPS_GPSLongitude, lon>>,
                      <<KEY_GPS_GPSLongitudeRef, IfdTag(PyStr(nr))>>}), keep) :
        lat \in GpsTriples, lon \in GpsTriples, lr \in {STR_N, STR_S}, nr \in {STR_E, STR_W},
        keep \in SUBSET GpsKeys}

\* the names and the values of the other tags of an image
OtherTagNames ==
    {KEY_Image_Make, KEY_Image_Model, KEY_Image_GPSInfo, KEY_EXIF_UserComment,
     KEY_JPEGThumbnail, KEY_GPS_GPSAltitude}

OtherTagValues ==
    {IfdTag(PyStr(<<67, 97, 110, 111, 110>>)), IfdTag(PyStr(<<>>)), IfdTag(PyStr(<<32>>)),
     IfdTag(PyStr(STR_None)), PyNone, PyBytes(<<255>>), IfdTag(PyList(<<PyInt(7), PyInt(8)>>)),
     IfdTag(PyStr(Rep(120, ExifValueCap - 1))), IfdTag(PyStr(Rep(120, ExifValueCap))),
     IfdTag(PyStr(Rep(120, ExifValueCap + 1)))}

RECURSIVE TagSetsUpTo(_)
\* the dicts of at most n of these tags
TagSetsUpTo(n) ==
    IF n = 0 THEN {<<>>}
    ELSE LET smaller == TagSetsUpTo(n - 1) IN
         smaller \cup {d @@ (name :> v) :
                          d \in smaller, name \in OtherTagNames, v \in OtherTagValues}

OtherTagSets == TagSetsUpTo(MaxTags)

\* the texts of the exceptions raised: str(e), of several lengths
Messages == {Rep(101, n) : n \in {0, 5, GeoErrorCap, GeoErrorCap + 1, ErrorCap, ErrorCap + 1}}

Returned == [raised |-> FALSE, msg |-> <<>>]
Raised(m) == [raised |-> TRUE, msg |-> m]

SomeGpsTags ==
    {<<>>,
     DictOf({<<KEY_GPS_GPSLatitude, Triple(Ratio(40, 1), Ratio(26, 1), Ratio(46, 1))>>,
             <<KEY_GPS_GPSLatitudeRef, IfdTag(PyStr(STR_N))>>,
             <<KEY_GPS_GPSLongitude, Triple(Ratio(79, 1), Ratio(58, 1), Ratio(56, 1))>>,
             <<KEY_GPS_GPSLongitudeRef, IfdTag(PyStr(STR_W))>>})}

\* a file by what os.path.getsize, open and exifread.process_file do on it
Files ==
    {[getsize |-> [raised |-> TRUE, msg |-> m, size |-> 0], open |-> Returned,
      process_file |-> [raised |-> FALSE, msg |-> <<>>, tags |-> <<>>]] : m \in Messages}
    \cup {[getsize |-> [raised |-> FALSE, msg |-> <<>>, size |-> 1536], open |-> Raised(m),
           process_file |-> [raised |-> FALSE, msg |-> <<>>, tags |-> <<>>]] : m \in Messages}
    \cup {[getsize |-> [raised |-> FALSE, msg |-> <<>>, size |-> sz], open |-> Returned,
           process_file |-> [raised |-> TRUE, msg |-> m, tags |-> <<>>]] :
            m \in Messages, sz \in {0, 1536}}
    \cup {[getsize |-> [raised |-> FALSE, msg |-> <<>>, size |-> 1536], open |-> Returned,
           process_file |-> [raised |-> FALSE, msg |-> <<>>, tags |-> g @@ o]] :
            g \in SomeGpsTags, o \in OtherTagSets}

\* what the provider's JSON holds
JsonObjects ==
    {[status |-> "1", formatted_address |-> fa, components |-> cs, infocode |-> "10000",
      info |-> "OK"] :
        fa \in {"", "West Lake"},
        cs \in {<<"", "", "", "", "">>, <<"Zhejiang", "", "Xihu", "", "">>}}
    \cup {[status |-> "0", formatted_address |-> "", components |-> <<"", "", "", "", "">>,
           infocode |-> ic, info |-> "INVALID_USER_KEY"] : ic \in {"10001", "404"}}

\* what the HTTP exchange of lines 183-191 does
HttpOutcomes ==
    {[kind |-> "timeout"]}
    \cup {[kind |-> k, msg |-> m] :
            k \in {"client_error", "http_status", "bad_json"}, m \in Messages}
    \cup {[kind |-> "json", obj |-> o] : o \in JsonObjects}

LatSamples == {0 - LatLimit - 1000000, 0 - LatLimit - 1, 0 - LatLimit, 0, 40446111,
               LatLimit, LatLimit + 1, LatLimit + 1000000}
LonSamples == {0 - LonLimit - 1, 0 - LonLimit, 0, 0 - 79982222, LonLimit, LonLimit + 1,
               LonLimit + 1000000}

GeoInputs ==
    [amap_api_key : {<<>>, <<107>>}, lat : LatSamples, lon : LonSamples, http : HttpOutcomes]

----------------------------------------------------------------------------
(* The states in which a part of the model is not in use *)

UnitIdle == fn = "none" /\ arg = <<>> /\ ret = [done |-> TRUE]

HandlerIdle ==
    /\ h_pc = "idle" /\ amap_api_key = <<>> /\ image = <<>> /\ disk = {}
    /\ temp_path = NoneVal /\ meta = NoneVal /\ geo_invoked = FALSE
    /\ geo_requests = 0 /\ sent = <<>>

SessionIdle ==
    /\ waiting_sessions = NoneVal /\ timeout_tasks = NoneVal /\ tasks = <<>>
    /\ now = 0 /\ msgs = <<>> /\ pending = {} /\ analysed = <<>> /\ sessions = <<>>

----------------------------------------------------------------------------
(* The pipeline functions, each called once on one input *)

Calls ==
    {<<"_safe_get_exif_value", a>> : a \in DecoderInputs}
    \cup {<<"_convert_exif_gps", a>> : a \in ConvertInputs}
    \cup {<<"_parse_gps_exifread", a>> : a \in GpsTagSets}
    \cup {<<"_parse_image_meta", a>> : a \in Files}
    \cup {<<"_gps_to_address", a>> : a \in GeoInputs}

Init ==
    /\ \E c \in Calls : fn = c[1] /\ arg = c[2]
    /\ ret = [done |-> FALSE]
    /\ HandlerIdle /\ SessionIdle

Return(v) ==
    /\ ~ret.done
    /\ ret' = [done |-> TRUE, val |-> v]
    /\ UNCHANGED <<fn, arg, handVars, sessVars>>

Call_safe_get_exif_value ==
    fn = "_safe_get_exif_value" /\ Return(safe_get_exif_value(arg))

Call_convert_exif_gps ==
    fn = "_convert_exif_gps" /\ Return(convert_exif_gps(arg.gps_coords, arg.ref))

Call_parse_gps_exifread ==
    fn = "_parse_gps_exifread" /\ Return(parse_gps_exifread(arg))

Call_parse_image_meta ==
    fn = "_parse_image_meta" /\ Return(parse_image_meta(arg))

Call_gps_to_address ==
    fn = "_gps_to_address"
    /\ Return(gps_to_address(arg.amap_api_key, arg.lat, arg.lon, arg.http))

Next ==
    \/ Call_safe_get_exif_value
    \/ Call_convert_exif_gps
    \/ Call_parse_gps_exifread
    \/ Call_parse_image_meta
    \/ Call_gps_to_address

Spec == Init /\ [][Next]_vars

----------------------------------------------------------------------------
(* Claims about the pipeline functions *)

Returned_from(name) == fn = name /\ ret.done

\* the value the claim gives a component: n for a plain number, n/d for a
\* rational pair, 0 when d = 0
ClaimedComponent(v) ==
    CASE v.t = "int" -> [n |-> v.n, d |-> 1]
      [] v.t = "float" -> [n |-> v.n, d |-> 10]
      [] v.t = "ratio" -> IF v.d = 0 THEN [n |-> 0, d |-> 1] ELSE [n |-> v.n, d |-> v.d]

IsNumberTriple(values) ==
    /\ values.t = "list" /\ Len(values.items) = 3
    /\ \A i \in 1..3 : values.items[i].t \in {"int", "float", "ratio"}

\* C1: for a triple of plain numbers or rational pairs and a ref in {N,S,E,W},
\* _convert_exif_gps returns sign * (deg + min/60 + sec/3600) rounded to 6
\* places, a rational contributing n/d (0 when d = 0), sign -1 exactly for S, W.
C1_ConvertsEveryTriple ==
    (Returned_from("_convert_exif_gps") /\ IsNumberTriple(arg.gps_coords.values)) =>
        LET c == [i \in 1..3 |-> ClaimedComponent(arg.gps_coords.values.items[i])]
            magnitude == DmsMicro(c[1], c[2], c[3])
        IN  ret.val = IF arg.ref \in {STR_S, STR_W} THEN 0 - magnitude ELSE magnitude

AllFourGpsTags(exif_tags) == GpsKeys \subseteq DOMAIN exif_tags

\* C2: _parse_gps_exifread gives one of three outcomes: a tag of the four missing:
\* no latitude, no longitude, the 'no GPS information' string; all four present and
\* both converted values 0.0: the 'GPS coordinates invalid' string; otherwise both
\* present and the formatted string.  Never exactly one of latitude and longitude.
C2_GpsOutcomes ==
    Returned_from("_parse_gps_exifread") =>
        LET r == ret.val
            lat_ref == arg[KEY_GPS_GPSLatitudeRef].values.s
            lon_ref == arg[KEY_GPS_GPSLongitudeRef].values.s
            lat == convert_exif_gps(arg[KEY_GPS_GPSLatitude], lat_ref)
            lon == convert_exif_gps(arg[KEY_GPS_GPSLongitude], lon_ref)
        IN  /\ ~AllFourGpsTags(arg) =>
                r.lat = NoneVal /\ r.lon = NoneVal /\ r.str.tpl = "NO_GPS"
            /\ (AllFourGpsTags(arg) /\ lat = 0 /\ lon = 0) =>
                r.str.tpl = "GPS_INVALID_ZERO"
            /\ (AllFourGpsTags(arg) /\ ~(lat = 0 /\ lon = 0)) =>
                /\ r.lat = Some(lat) /\ r.lon = Some(lon)
                /\ r.str = [tpl |-> "GPS_COORDS", lat |-> lat, lat_ref |-> lat_ref,
                            lon |-> lon, lon_ref |-> lon_ref]
            /\ (r.lat = NoneVal) <=> (r.lon = NoneVal)

\* all four tags present, latitude 0 and longitude not 0: the formatted string
C2_Witness ==
    /\ Returned_from("_parse_gps_exifread") /\ AllFourGpsTags(arg)
    /\ ret.val.lat = Some(0) /\ ret.val.lon # Some(0)
    /\ ret.val.str.tpl = "GPS_COORDS"

ParsedTags == Returned_from("_parse_image_meta") /\ ret.val.error = NoneVal

ExifKey(tag) == Replace(tag, SP, UNDERSCORE)

\* the exif mapping holds exactly the tags outside the GPS sub-block whose decoded
\* value is not empty, not "None" and shorter than `limit`, each under its key
ExifHoldsExactly(limit) ==
    LET tags == arg.process_file.tags
        exif == ret.val.exif
    IN  /\ \A tag \in DOMAIN tags :
              LET val_str == safe_get_exif_value(tags[tag]) IN
              IF ~StartsWith(tag, STR_GPS) /\ val_str # <<>> /\ val_str # STR_None
                 /\ Len(val_str) < limit
              THEN ExifKey(tag) \in DOMAIN exif /\ exif[ExifKey(tag)] = val_str
              ELSE ExifKey(tag) \notin DOMAIN exif
        /\ \A k \in DOMAIN exif :
              ~StartsWith(k, STR_GPS) /\ \E tag \in DOMAIN tags : ExifKey(tag) = k

\* C3 as stated: after a successful _parse_image_meta, exif holds exactly the
\* non-GPS tags whose value is non-empty, not "None" and at most 200 characters
\* (200 kept, 201 dropped), keyed with spaces as underscores; no key starts with GPS.
C3_KeepsUpTo200 == ParsedTags => ExifHoldsExactly(200 + 1)

\* C3 as amended: the same with a value kept only when it is shorter than 200
\* characters (199 kept, 200 dropped).
C3_KeepsBelow200 == ParsedTags => ExifHoldsExactly(200)

\* a value of 199 characters kept and one of 200 characters dropped
C3_Witness ==
    /\ ParsedTags
    /\ \E t1, t2 \in DOMAIN arg.process_file.tags :
          /\ Len(safe_get_exif_value(arg.process_file.tags[t1])) = ExifValueCap - 1
          /\ ExifKey(t1) \in DOMAIN ret.val.exif
          /\ Len(safe_get_exif_value(arg.process_file.tags[t2])) = ExifValueCap
          /\ ExifKey(t2) \notin DOMAIN ret.val.exif

\* bytes that are no UTF-8 text and give no character under either codec
NotDecodable(b) ==
    ~Utf8Valid(b) /\ Strip(Utf8DecodeIgnore(b)) = <<>> /\ Strip(GbkDecodeIgnore(b)) = <<>>

\* C4: on a bytes value _safe_get_exif_value returns the source string when the
\* bytes are valid UTF-8 (up to the surrounding whitespace it trims), and the
\* placeholder stating the byte count when the bytes are not decodable, never an
\* empty string or decoded remnants.
C4_BytesDecodeOrPlaceholder ==
    (Returned_from("_safe_get_exif_value") /\ arg.t = "bytes") =>
        /\ Utf8Valid(arg.b) => ret.val = Strip(Utf8DecodeIgnore(arg.b))
        /\ NotDecodable(arg.b) =>
              ret.val = STR_BinaryPrefix \o Digits(Len(arg.b)) \o STR_BytesSuffix

FileFailed(file) == file.getsize.raised \/ file.open.raised \/ file.process_file.raised

\* C5: when the file is missing or the Exif reader fails, _parse_image_meta returns
\* a record with error set, exif empty, no latitude, no longitude, the 'no GPS
\* information' string, and the size entry whenever the size was obtained;
\* whenever error is set, exif is empty.
C5_FailureRecord ==
    Returned_from("_parse_image_meta") =>
        LET r == ret.val IN
        /\ FileFailed(arg) =>
              /\ r.error # NoneVal /\ Len(r.error[1]) <= ErrorCap
              /\ DOMAIN r.exif = {}
              /\ r.gps.lat = NoneVal /\ r.gps.lon = NoneVal /\ r.gps.str.tpl = "NO_GPS"
              /\ ~arg.getsize.raised => "file_size_kb" \in DOMAIN r.basic
        /\ r.error # NoneVal => DOMAIN r.exif = {}
        /\ r.error # NoneVal <=> FileFailed(arg)

\* the Exif reader failed after the size was obtained
C5_Witness ==
    /\ Returned_from("_parse_image_meta") /\ arg.process_file.raised
    /\ ret.val.error # NoneVal /\ "file_size_kb" \in DOMAIN ret.val.basic

\* C6: _gps_to_address issues the request only if a key is configured, lat is in
\* [-90,90] and lon in [-180,180]; with no key it returns the instructional string
\* and makes no call; with a key and a lat or lon out of range it returns the
\* 'invalid coordinates' string naming the values and makes no call.
C6_RequestOnlyWhenValid ==
    Returned_from("_gps_to_address") =>
        LET in_range == /\ arg.lat >= 0 - 90000000 /\ arg.lat <= 90000000
                        /\ arg.lon >= 0 - 180000000 /\ arg.lon <= 180000000
            r == ret.val
        IN  /\ r.requests = 1 <=> (arg.amap_api_key # <<>> /\ in_range)
            /\ r.requests \in {0, 1}
            /\ arg.amap_api_key = <<>> => r.str.tpl = "NO_API_KEY"
            /\ (arg.amap_api_key # <<>> /\ ~in_range) =>
                  r.str = [tpl |-> "INVALID_COORDS", lat |-> arg.lat, lon |-> arg.lon]

\* a key, lat in range, lon 181: the 'invalid coordinates' string and no call
C6_Witness ==
    /\ Returned_from("_gps_to_address") /\ arg.amap_api_key # <<>>
    /\ arg.lat = 0 /\ arg.lon = LonLimit + 1000000
    /\ ret.val.str.tpl = "INVALID_COORDS" /\ ret.val.requests = 0

\* the failure class of an exchange, as the claim names them
FailureClass(http) ==
    CASE http.kind = "timeout" -> "timeout"
      [] http.kind \in {"client_error", "http_status"} -> "network"
      [] http.kind = "bad_json" -> "malformed"
      [] http.kind = "json" -> IF http.obj.status = "1" THEN "none" ELSE "provider"

\* the classes the code tells apart
CoarseClass(http) ==
    IF FailureClass(http) \in {"network", "malformed"} THEN "other" ELSE FailureClass(http)

GeoFailed ==
    /\ Returned_from("_gps_to_address") /\ ret.val.requests = 1
    /\ FailureClass(arg.http) # "none"

\* C7 as stated: a timeout, a network failure, a malformed response and a
\* provider-reported failure each give a string no failure of another class gives.
C7_FourClassesDistinct ==
    GeoFailed =>
        \A other \in HttpOutcomes :
            FailureClass(other) \notin {"none", FailureClass(arg.http)} =>
                gps_to_address(arg.amap_api_key, arg.lat, arg.lon, other).str # ret.val.str

\* C7 as amended: a timeout, a provider-reported failure and any other failure
\* each give a string no failure of another of these three classes gives; a network
\* failure and a malformed response both give the generic 'unknown error' string
\* with the first 30 characters of the exception's text.
C7_ThreeClassesDistinct ==
    GeoFailed =>
        /\ \A other \in HttpOutcomes :
              CoarseClass(other) \notin {"none", CoarseClass(arg.http)} =>
                  gps_to_address(arg.amap_api_key, arg.lat, arg.lon, other).str # ret.val.str
        /\ CoarseClass(arg.http) = "other" =>
              ret.val.str = [tpl |-> "UNKNOWN_ERROR", text |-> Prefix(arg.http.msg, 30)]

\* a network failure with a text longer than 30 characters was reported
C7_Witness ==
    /\ GeoFailed /\ arg.http.kind = "client_error" /\ Len(arg.http.msg) > 30
    /\ ret.val.str.tpl = "UNKNOWN_ERROR"

----------------------------------------------------------------------------
(* One run of a handler on a message with an image: lines 366-376 of            *)
(* imgmeta_handler, lines 417-426 of on_message.  An action is the code from one *)
(* await to the next; a run may be cancelled while it waits.                     *)

TempName == "tmp1"

\* _download_image (lines 276-291) on what the request, NamedTemporaryFile and
\* write do: the path returned and the files left on disk
download_image(outcome) ==
    CASE outcome = "request_failed" -> [temp_path |-> NoneVal, files |-> {}]
      [] outcome = "tempfile_failed" -> [temp_path |-> NoneVal, files |-> {}]
      [] outcome = "write_failed" -> [temp_path |-> NoneVal, files |-> {TempName}]
      [] outcome = "ok" -> [temp_path |-> Some(TempName), files |-> {TempName}]

DownloadOutcomes == {"request_failed", "tempfile_failed", "write_failed", "ok"}

\* the truth value of an Optional[float]: None and 0.0 are false
Truthy(opt) == opt # NoneVal /\ opt[1] # 0

\* the test of line 327
GeocodeWanted(m) == Truthy(m.gps.lat) /\ Truthy(m.gps.lon)

\* the images downloaded: their GPS tags, or a file the reader fails on
HandlerImages ==
    {[getsize |-> [raised |-> FALSE, msg |-> <<>>, size |-> 1536], open |-> Returned,
      process_file |-> [raised |-> FALSE, msg |-> <<>>, tags |-> g]] : g \in GpsTagSets}
    \cup {[getsize |-> [raised |-> FALSE, msg |-> <<>>, size |-> 1536], open |-> Returned,
           process_file |-> [raised |-> TRUE, msg |-> Rep(101, 5), tags |-> <<>>]]}

HandlerHttp ==
    {[kind |-> "timeout"], [kind |-> "client_error", msg |-> Rep(101, 5)]}
    \cup {[kind |-> "json", obj |-> o] : o \in JsonObjects}

InitHandler ==
    /\ UnitIdle /\ SessionIdle
    /\ h_pc = "download"
    /\ amap_api_key \in {<<>>, <<107>>}
    /\ image \in HandlerImages
    /\ disk = {} /\ temp_path = NoneVal /\ meta = NoneVal
    /\ geo_invoked = FALSE /\ geo_requests = 0 /\ sent = <<>>

\* temp_path = await self._download_image(img_url) (lines 367, 418)
H_Download ==
    /\ h_pc = "download"
    /\ \E outcome \in DownloadOutcomes :
          LET d == download_image(outcome) IN
          /\ disk' = disk \cup d.files
          /\ temp_path' = d.temp_path
          /\ h_pc' = IF d.temp_path # NoneVal THEN "parse" ELSE "send_download_failed"
    /\ UNCHANGED <<amap_api_key, image, meta, geo_invoked, geo_requests, sent,
                   unitVars, sessVars>>

\* process_metadata_analysis up to its first await (lines 314-328)
H_Parse ==
    /\ h_pc = "parse"
    /\ LET m == parse_image_meta(image) IN
          /\ meta' = Some(m)
          /\ geo_invoked' = GeocodeWanted(m)
          /\ h_pc' = IF GeocodeWanted(m) THEN "geocode" ELSE "send"
    /\ UNCHANGED <<amap_api_key, image, disk, temp_path, geo_requests, sent,
                   unitVars, sessVars>>

\* addr_str = await self._gps_to_address(lat, lon) (line 328)
H_Geocode ==
    /\ h_pc = "geocode"
    /\ \E http \in HandlerHttp :
          LET r == gps_to_address(amap_api_key, meta[1].gps.lat[1], meta[1].gps.lon[1], http)
          IN  geo_requests' = geo_requests + r.requests
    /\ h_pc' = "send"
    /\ UNCHANGED <<amap_api_key, image, disk, temp_path, meta, geo_invoked, sent,
                   unitVars, sessVars>>

\* await event.send(event.chain_result(chain)) (line 350): sent, or it raises
H_Send ==
    /\ h_pc = "send"
    /\ \E ok \in BOOLEAN :
          IF ok THEN sent' = Append(sent, "analysis") /\ h_pc' = "unlink"
          ELSE sent' = sent /\ h_pc' = "send_error"
    /\ UNCHANGED <<amap_api_key, image, disk, temp_path, meta, geo_invoked, geo_requests,
                   unitVars, sessVars>>

\* the except block of lines 351-353: its own send is sent, or raises out of
\* process_metadata_analysis and out of the handler
H_SendError ==
    /\ h_pc = "send_error"
    /\ \E ok \in BOOLEAN :
          IF ok THEN sent' = Append(sent, "analysis failed") /\ h_pc' = "unlink"
          ELSE sent' = sent /\ h_pc' = "raised"
    /\ UNCHANGED <<amap_api_key, image, disk, temp_path, meta, geo_invoked, geo_requests,
                   unitVars, sessVars>>

\* os.unlink(temp_path) (lines 370-373, 421-424)
H_Unlink ==
    /\ h_pc = "unlink"
    /\ disk' = disk \ {temp_path[1]}
    /\ h_pc' = "done"
    /\ UNCHANGED <<amap_api_key, image, temp_path, meta, geo_invoked, geo_requests, sent,
                   unitVars, sessVars>>

\* the else branch of lines 374-375, 425-426
H_SendDownloadFailed ==
    /\ h_pc = "send_download_failed"
    /\ \E ok \in BOOLEAN :
          IF ok THEN sent' = Append(sent, "download failed") /\ h_pc' = "done"
          ELSE sent' = sent /\ h_pc' = "raised"
    /\ UNCHANGED <<amap_api_key, image, disk, temp_path, meta, geo_invoked, geo_requests,
                   unitVars, sessVars>>

\* the handler's task is cancelled while it waits: CancelledError is no Exception,
\* no except clause of the handlers catches it and nothing after the await runs
H_Cancel ==
    /\ h_pc \in {"download", "geocode", "send", "send_error", "send_download_failed"}
    /\ h_pc' = "cancelled"
    /\ UNCHANGED <<amap_api_key, image, disk, temp_path, meta, geo_invoked, geo_requests,
                   sent, unitVars, sessVars>>

NextHandler ==
    \/ H_Download
    \/ H_Parse
    \/ H_Geocode
    \/ H_Send
    \/ H_SendError
    \/ H_Unlink
    \/ H_SendDownloadFailed
    \/ H_Cancel

SpecHandler == InitHandler /\ [][NextHandler]_vars

HandlerEnded == h_pc \in {"done", "raised", "cancelled"}

\* C9: process_metadata_analysis invokes the geocode resolver exactly when latitude
\* and longitude are both present and not both 0.0; a fix with one zero component
\* is geocoded, an absent coordinate or (0.0, 0.0) never.
C9_GeocodesEveryValidFix ==
    meta # NoneVal =>
        LET gps == meta[1].gps IN
        geo_invoked <=>
            (gps.lat # NoneVal /\ gps.lon # NoneVal /\ ~(gps.lat[1] = 0 /\ gps.lon[1] = 0))

\* C10: every temporary file _download_image created is deleted on every exit path
\* of the handler: no run ends with a temporary file still on disk.
C10_NoTempFileLeft == HandlerEnded => disk = {}

----------------------------------------------------------------------------
(* The waiting session and the timeout task of one user.  A message is given   *)
(* to on_message, which is registered for every message (line 388), and, when  *)
(* it is the command, to imgmeta_handler (line 355).  A handler or a task runs *)
(* without interruption up to its first await that waits; what a handler does  *)
(* after it (download, analysis, reply) touches neither dictionary.            *)

InitSession ==
    /\ UnitIdle /\ HandlerIdle
    /\ waiting_sessions = NoneVal /\ timeout_tasks = NoneVal /\ tasks = <<>>
    /\ now = 0 /\ msgs = <<>> /\ pending = {} /\ analysed = <<>> /\ sessions = <<>>

\* Task.cancel() (lines 384, 414): a task that has not finished is cancelled
CancelTask(ts, t) ==
    IF ts[t].state \in {"sleeping", "sending"}
    THEN [ts EXCEPT ![t].state = "cancelled"] ELSE ts

\* the user sends a message: the command or not, with an image or not
Receive ==
    /\ Len(msgs) < MaxMsgs
    /\ \E command \in BOOLEAN, has_image \in BOOLEAN :
          LET m == Len(msgs) + 1 IN
          /\ msgs' = Append(msgs, [command |-> command, image |-> has_image])
          /\ analysed' = Append(analysed, 0)
          /\ pending' = pending \cup {<<"on_message", m>>}
                        \cup (IF command THEN {<<"imgmeta_handler", m>>} ELSE {})
    /\ UNCHANGED <<waiting_sessions, timeout_tasks, tasks, now, sessions,
                   unitVars, handVars>>

\* imgmeta_handler (lines 355-386) on message m
imgmeta_handler(m) ==
    /\ <<"imgmeta_handler", m>> \in pending
    /\ pending' = pending \ {<<"imgmeta_handler", m>>}
    /\ IF msgs[m].image
       THEN \* lines 366-376: the image is downloaded and, if that worked, analysed
            /\ \E downloaded \in BOOLEAN :
                  analysed' = [analysed EXCEPT ![m] = @ + (IF downloaded THEN 1 ELSE 0)]
            /\ UNCHANGED <<waiting_sessions, timeout_tasks, tasks, sessions>>
       ELSE \* lines 379-386: wait for the image
            /\ waiting_sessions' = Some([timestamp |-> now, event |-> m])
            /\ timeout_tasks' = Some(m)
            /\ tasks' = (IF timeout_tasks # NoneVal
                         THEN CancelTask(tasks, timeout_tasks[1]) ELSE tasks)
                        @@ (m :> [state |-> "sleeping", due |-> now + timeout_seconds])
            /\ sessions' = sessions @@ (m :> [analysis |-> 0, timeout |-> 0])
            /\ UNCHANGED analysed
    /\ UNCHANGED <<now, msgs, unitVars, handVars>>

\* on_message (lines 388-426) on message m
on_message(m) ==
    /\ <<"on_message", m>> \in pending
    /\ pending' = pending \ {<<"on_message", m>>}
    /\ IF \/ waiting_sessions = NoneVal
          \/ now - waiting_sessions[1].timestamp > timeout_seconds
          \/ ~msgs[m].image
       THEN UNCHANGED <<waiting_sessions, timeout_tasks, tasks, analysed, sessions>>
       ELSE /\ waiting_sessions' = NoneVal
            /\ timeout_tasks' = NoneVal
            /\ tasks' = IF timeout_tasks # NoneVal
                        THEN CancelTask(tasks, timeout_tasks[1]) ELSE tasks
            /\ \E downloaded \in BOOLEAN :
                  LET n == IF downloaded THEN 1 ELSE 0 IN
                  /\ analysed' = [analysed EXCEPT ![m] = @ + n]
                  /\ sessions' = [sessions EXCEPT
                                    ![waiting_sessions[1].event].analysis = @ + n]
    /\ UNCHANGED <<now, msgs, unitVars, handVars>>

\* timeout_check (lines 428-441) of task t, once its sleep is over
timeout_check(t) ==
    /\ t \in DOMAIN tasks
    /\ tasks[t].state = "sleeping"
    /\ now >= tasks[t].due
    /\ tasks' = [tasks EXCEPT ![t].state = "done"]
    /\ IF waiting_sessions # NoneVal
       THEN /\ waiting_sessions' = NoneVal
            /\ timeout_tasks' = NoneVal
            /\ sessions' = [sessions EXCEPT ![waiting_sessions[1].event].timeout = @ + 1]
       ELSE UNCHANGED <<waiting_sessions, timeout_tasks, sessions>>
    /\ UNCHANGED <<now, msgs, pending, analysed, unitVars, handVars>>

\* the loop's clock moves on
Tick ==
    /\ now < MaxTime
    /\ now' = now + 1
    /\ UNCHANGED <<waiting_sessions, timeout_tasks, tasks, msgs, pending, analysed,
                   sessions, unitVars, handVars>>

NextSession ==
    \/ Receive
    \/ \E m \in 1..Len(msgs) : imgmeta_handler(m)
    \/ \E m \in 1..Len(msgs) : on_message(m)
    \/ \E t \in DOMAIN tasks : timeout_check(t)
    \/ Tick

SpecSession == InitSession /\ [][NextSession]_vars

\* a waiting session ends in at most one way, and at most once
SessionsResolvedOnce ==
    \A sid \in DOMAIN sessions : sessions[sid].analysis + sessions[sid].timeout <= 1

\* no message is analysed twice
MessagesAnalysedOnce == \A m \in 1..Len(msgs) : analysed[m] <= 1

\* at most one timeout task is waiting to fire
OneTimeoutTask == Cardinality({t \in DOMAIN tasks : tasks[t].state = "sleeping"}) <= 1

\* C8: under any interleaving of imgmeta_handler, on_message and timeout_check, a
\* waiting session is resolved once, by one analysis or by one timeout prompt and
\* never both; no image message is analysed more than once; re-issuing the command
\* cancels the earlier timeout task.
C8_ResolvedExactlyOnce ==
    SessionsResolvedOnce /\ MessagesAnalysedOnce /\ OneTimeoutTask

====
